---------------------------- MODULE Spec2Model ----------------------------
(***************************************************************************)
(* Model of the USB PD specification parser (usb_pd_parser/parser).        *)
(*                                                                         *)
(* Strings that the code takes apart (section ids, page fields) are        *)
(* sequences of one-character strings, so that split, join, count and int  *)
(* are computed instead of assumed.  A page text is the sequence of its    *)
(* lines ("\n".join / split("\n")); a page with no line yields no text.    *)
(* An Optional value is None (the empty tuple) or Some(v) (a 1-tuple).     *)
(***************************************************************************)
EXTENDS Integers, Sequences, FiniteSets, TLC

VARIABLES
    pdf,              \* the document: pdf[p] is the sequence of lines of page p
    TOC_SCAN_PAGES,   \* Config.TOC_SCAN_PAGES
    toc_entries,      \* USBPDParser.toc_entries
    section_entries,  \* USBPDParser.section_entries
    metadata,         \* USBPDParser.metadata (total_pages, toc_pages, sections_count)
    ranges,           \* per TOC entry, the locals of the last _extract_section_content
    lastOp,           \* the public method that returned last
    line,             \* the argument of extract_toc_entry (line parser runs)
    entry,            \* the value extract_toc_entry returned for line
    doc_type,         \* the argument of get_document_config
    tag_title,        \* the argument of generate_tags
    out,              \* the values returned by the calls made so far, in call order
    pc,               \* the statement of main the run is at
    files,            \* the files in Config.OUTPUT_DIR
    exit_code,        \* the exit status of the process, once it has ended
    args              \* the command line: the input path and --toc-pages

vars == <<pdf, TOC_SCAN_PAGES, toc_entries, section_entries, metadata, ranges,
          lastOp, line, entry, doc_type, tag_title, out, pc, files, exit_code,
          args>>

\* the variables of a command line run
cli == <<pc, files, exit_code, args>>

\* the variables of the profile, validation and command line runs
aside == <<doc_type, tag_title, out, cli>>

-----------------------------------------------------------------------------
(* Bounds of the model *)

MaxPages == 3
MaxLines == 2
MaxDepth == 3

-----------------------------------------------------------------------------
(* Optional values, strings *)

None == <<>>
Some(v) == <<v>>

Min(S) == CHOOSE x \in S : \A y \in S : x <= y
Max(S) == CHOOSE x \in S : \A y \in S : x >= y

DigitVal(c) ==
    CASE c = "0" -> 0 [] c = "1" -> 1 [] c = "2" -> 2 [] c = "3" -> 3
      [] c = "4" -> 4 [] c = "5" -> 5 [] c = "6" -> 6 [] c = "7" -> 7
      [] c = "8" -> 8 [] c = "9" -> 9

\* int(s) for a string of decimal digits
RECURSIVE int(_)
int(s) ==
    IF Len(s) = 0 THEN 0
    ELSE 10 * int(SubSeq(s, 1, Len(s) - 1)) + DigitVal(s[Len(s)])

\* s.count('.')
RECURSIVE count_dots(_)
count_dots(s) ==
    IF Len(s) = 0 THEN 0
    ELSE (IF Head(s) = "." THEN 1 ELSE 0) + count_dots(Tail(s))

\* s.split('.'): the pieces between the dots, empty pieces included
RECURSIVE split_dots(_)
split_dots(s) ==
    IF \A i \in 1..Len(s) : s[i] # "." THEN <<s>>
    ELSE LET d == Min({i \in 1..Len(s) : s[i] = "."})
         IN  <<SubSeq(s, 1, d - 1)>> \o split_dots(SubSeq(s, d + 1, Len(s)))

\* '.'.join(pieces)
RECURSIVE join_dots(_)
join_dots(pieces) ==
    IF Len(pieces) = 0 THEN <<>>
    ELSE IF Len(pieces) = 1 THEN pieces[1]
    ELSE pieces[1] \o <<".">> \o join_dots(Tail(pieces))

\* [int(n) for n in section_id.split(".")]
int_parts(section_id) ==
    LET pieces == split_dots(section_id)
    IN  [i \in 1..Len(pieces) |-> int(pieces[i])]

\* "\n".join(content_parts): the lines of the parts, one after the other
RECURSIVE join_lines(_)
join_lines(parts) ==
    IF Len(parts) = 0 THEN <<>>
    ELSE Head(parts) \o join_lines(Tail(parts))

-----------------------------------------------------------------------------
(* utils.extract_toc_entry and schemas.validate_toc_entry *)

\* A line is [pat, id, title, num]: pat is the index of the first pattern of
\* the list that matches it (0: none does), and id, title, num are the three
\* groups that pattern captures.
NoMatchLine == [pat |-> 0, id |-> <<>>, title |-> "", num |-> <<>>]

\* jsonschema validation against TOC_SCHEMA: the types of the fields
validate_toc_entry(e) ==
    /\ e.page \in Int
    /\ e.level \in Int
    /\ e.parent_id = None \/ Len(e.parent_id) = 1

level_wrong(section_id) == count_dots(section_id)

level_of(section_id) == count_dots(section_id) + 1

parent_of(section_id) ==
    IF level_of(section_id) > 1
    THEN LET pieces == split_dots(section_id)
         IN  Some(join_dots(SubSeq(pieces, 1, Len(pieces) - 1)))
    ELSE None

extract_toc_entry(l) ==
    IF l.pat = 0 THEN None
    ELSE LET e == [section_id |-> l.id,
                   title      |-> l.title,
                   page       |-> int(l.num),
                   level      |-> level_of(l.id),
                   parent_id  |-> parent_of(l.id)]
         IN  IF validate_toc_entry(e) THEN Some(e) ELSE None

-----------------------------------------------------------------------------
(* USBPDParser.extract_toc *)

\* entry["page"] = page_num + 1, for a line found on the page with that number
entry_page_kept(e, page_no) == e.page

entry_page(e, page_no) == page_no

\* the inner loop of extract_toc over the lines of one page
RECURSIVE scan_lines(_, _)
scan_lines(ls, page_no) ==
    IF Len(ls) = 0 THEN <<>>
    ELSE LET r == extract_toc_entry(Head(ls))
         IN  (IF r = None THEN <<>>
              ELSE <<[r[1] EXCEPT !.page = entry_page(r[1], page_no)]>>)
             \o scan_lines(Tail(ls), page_no)

\* range(min(Config.TOC_SCAN_PAGES, len(pdf.pages))), as 1-based page numbers
scan_range(doc, limit) == 1..(IF limit < Len(doc) THEN limit ELSE Len(doc))

\* the entries appended by the outer loop, in scan order
RECURSIVE scan_pages(_, _, _)
scan_pages(doc, limit, page_no) ==
    IF page_no \notin scan_range(doc, limit) THEN <<>>
    ELSE scan_lines(doc[page_no], page_no) \o scan_pages(doc, limit, page_no + 1)

\* metadata["toc_pages"] after the outer loop
RECURSIVE scan_toc_pages(_, _, _, _)
scan_toc_pages(pages, doc, limit, page_no) ==
    IF page_no \notin scan_range(doc, limit) THEN pages
    ELSE scan_toc_pages(
             IF /\ scan_lines(doc[page_no], page_no) # <<>>
                /\ \A i \in 1..Len(pages) : pages[i] # page_no
             THEN Append(pages, page_no) ELSE pages,
             doc, limit, page_no + 1)

\* Python's a < b on lists of integers
RECURSIVE list_less(_, _)
list_less(a, b) ==
    IF Len(a) = 0 THEN Len(b) > 0
    ELSE IF Len(b) = 0 THEN FALSE
    ELSE IF a[1] # b[1] THEN a[1] < b[1]
    ELSE list_less(Tail(a), Tail(b))

\* the characters of the id as code points relative to "0" ("." sorts first)
sort_key_chars(e) ==
    [i \in 1..Len(e.section_id) |->
        IF e.section_id[i] = "." THEN -2 ELSE DigitVal(e.section_id[i])]

\* key=lambda x: [int(n) for n in x["section_id"].split(".")]
sort_key(e) == int_parts(e.section_id)

\* list.sort is stable: e goes before the first element with a greater key
insert_sorted(sorted, e) ==
    LET later == {i \in 1..Len(sorted) : list_less(sort_key(e), sort_key(sorted[i]))}
        at    == IF later = {} THEN Len(sorted) + 1 ELSE Min(later)
    IN  SubSeq(sorted, 1, at - 1) \o <<e>> \o SubSeq(sorted, at, Len(sorted))

RECURSIVE sort_from(_, _)
sort_from(sorted, rest) ==
    IF Len(rest) = 0 THEN sorted
    ELSE sort_from(insert_sorted(sorted, Head(rest)), Tail(rest))

sort_unsorted(es) == es

sort_entries(es) == sort_from(<<>>, es)

\* self.toc_entries and self.metadata when extract_toc returns
toc_kept(previous) == previous

\* self.toc_entries = []
toc_at_start(previous) == <<>>

toc_after_extract_toc(previous, doc, limit) ==
    sort_entries(toc_at_start(previous) \o scan_pages(doc, limit, 1))

metadata_after_extract_toc(md, doc, limit) ==
    [md EXCEPT !.total_pages = Len(doc),
               !.toc_pages = scan_toc_pages(md.toc_pages, doc, limit, 1)]

extract_toc ==
    /\ toc_entries' = toc_after_extract_toc(toc_entries, pdf, TOC_SCAN_PAGES)
    /\ metadata' = metadata_after_extract_toc(metadata, pdf, TOC_SCAN_PAGES)
    /\ lastOp' = "extract_toc"
    /\ UNCHANGED <<pdf, TOC_SCAN_PAGES, section_entries, ranges, line, entry, aside>>

-----------------------------------------------------------------------------
(* USBPDParser._is_next_section, _find_section_end_page *)

\* the length of the common prefix of two lists of integers
RECURSIVE common_prefix_len(_, _)
common_prefix_len(a, b) ==
    IF Len(a) = 0 \/ Len(b) = 0 THEN 0
    ELSE IF a[1] = b[1] THEN 1 + common_prefix_len(Tail(a), Tail(b))
    ELSE 0

_is_next_section(current_id, next_id, current_level) ==
    LET current_parts == int_parts(current_id)
        next_parts    == int_parts(next_id)
        common_len    == common_prefix_len(current_parts, next_parts)
    IN  IF Len(next_parts) <= current_level THEN TRUE
        ELSE IF /\ Len(next_parts) = Len(current_parts) + 1
                /\ common_len = Len(current_parts)
        THEN FALSE
        ELSE TRUE

\* the index in toc, from i on, of the entry at which the loop of
\* _find_section_end_page returns; 0 when the loop runs to its end
RECURSIVE closing_index(_, _, _)
closing_index(toc, current_section, i) ==
    IF i > Len(toc) THEN 0
    ELSE IF toc[i].section_id = current_section.section_id
    THEN closing_index(toc, current_section, i + 1)
    ELSE IF _is_next_section(current_section.section_id, toc[i].section_id,
                             current_section.level)
    THEN i
    ELSE closing_index(toc, current_section, i + 1)

_find_section_end_page(doc, toc, current_section) ==
    LET k == closing_index(toc, current_section, 1)
    IN  IF k = 0 THEN Len(doc) ELSE toc[k].page

-----------------------------------------------------------------------------
(* USBPDParser._extract_section_content, extract_sections *)

\* pdf.pages[page_num] for a 0-based index that passed the bound test; a
\* negative index counts from the end of the list
page_text(doc, page_num) ==
    IF page_num >= 0 THEN doc[page_num + 1] ELSE doc[Len(doc) + page_num + 1]

range_first_wrong(start_page) == start_page

\* the first value of range(start_page - 1, end_page)
range_first(start_page) == start_page - 1

\* the 0-based page numbers the loop visits: range(start_page - 1, end_page)
\* up to the break at the first page_num >= len(pdf.pages)
pages_visited(doc, start_page, end_page) ==
    LET lo == range_first(start_page)
        hi == IF end_page - 1 < Len(doc) - 1 THEN end_page - 1 ELSE Len(doc) - 1
    IN  [i \in 1..(IF hi >= lo THEN hi - lo + 1 ELSE 0) |-> lo + i - 1]

\* content_parts: the texts of the visited pages that yield text
RECURSIVE content_parts(_, _)
content_parts(doc, visited) ==
    IF Len(visited) = 0 THEN <<>>
    ELSE (IF page_text(doc, Head(visited)) # <<>>
          THEN <<page_text(doc, Head(visited))>> ELSE <<>>)
         \o content_parts(doc, Tail(visited))

content_returned_empty(parts) == Some(join_lines(parts))

\* return "\n".join(content_parts) if content_parts else None
content_returned(parts) ==
    IF parts # <<>> THEN Some(join_lines(parts)) ELSE None

\* the locals of one call: start_page, end_page, the pages read, and the
\* returned value (None when no page yields text)
section_range(doc, toc, toc_entry) ==
    LET start_page == toc_entry.page
        end_page   == _find_section_end_page(doc, toc, toc_entry)
        visited    == pages_visited(doc, start_page, end_page)
        parts      == content_parts(doc, visited)
    IN  [start_page |-> start_page,
         end_page   |-> end_page,
         closed_by  |-> closing_index(toc, toc_entry, 1),
         pages      |-> [i \in 1..Len(visited) |-> visited[i] + 1],
         content    |-> content_returned(parts)]

_extract_section_content(doc, toc, toc_entry) ==
    section_range(doc, toc, toc_entry).content

\* toc_entry.copy() with section_entry["content"] set
section_entry_of(toc_entry, section_content) ==
    [section_id |-> toc_entry.section_id,
     title      |-> toc_entry.title,
     page       |-> toc_entry.page,
     level      |-> toc_entry.level,
     parent_id  |-> toc_entry.parent_id,
     content    |-> section_content]

\* the loop of extract_sections over toc, from entry i on
RECURSIVE sections_from(_, _, _)
sections_from(doc, toc, i) ==
    IF i > Len(toc) THEN <<>>
    ELSE LET section_content == _extract_section_content(doc, toc, toc[i])
         IN  (IF section_content # None /\ section_content[1] # <<>>
              THEN <<section_entry_of(toc[i], section_content[1])>>
              ELSE <<>>)
             \o sections_from(doc, toc, i + 1)

toc_entry_with_content(toc_entry, section_content) ==
    section_entry_of(toc_entry, section_content)

\* the TOC entry once section_entry["content"] is set: the content goes to
\* the copy
toc_entry_after_copy(toc_entry, section_content) == toc_entry

\* self.toc_entries after the loop of extract_sections over toc
toc_after_sections(doc, toc) ==
    [i \in 1..Len(toc) |->
        LET section_content == _extract_section_content(doc, toc, toc[i])
        IN  IF section_content # None /\ section_content[1] # <<>>
            THEN toc_entry_after_copy(toc[i], section_content[1])
            ELSE toc[i]]

\* self.section_entries = []
section_entries_at_start(previous) == <<>>

extract_sections ==
    LET scan == (toc_entries = <<>>)
        toc  == IF scan
                THEN toc_after_extract_toc(toc_entries, pdf, TOC_SCAN_PAGES)
                ELSE toc_entries
        md   == IF scan
                THEN metadata_after_extract_toc(metadata, pdf, TOC_SCAN_PAGES)
                ELSE metadata
        secs == section_entries_at_start(section_entries) \o sections_from(pdf, toc, 1)
    IN  /\ toc_entries' = toc_after_sections(pdf, toc)
        /\ section_entries' = secs
        /\ metadata' = [md EXCEPT !.sections_count = Len(secs)]
        /\ ranges' = [i \in 1..Len(toc) |-> section_range(pdf, toc, toc[i])]
        /\ lastOp' = "extract_sections"
        /\ UNCHANGED <<pdf, TOC_SCAN_PAGES, line, entry, aside>>

-----------------------------------------------------------------------------
(* No command line run: the parser or a function is called directly *)

NoRun ==
    /\ pc = ""
    /\ files = {}
    /\ exit_code = None
    /\ args = [exists |-> FALSE, suffix |-> <<>>, toc_pages |-> 0]

-----------------------------------------------------------------------------
(* The documents and lines the model runs on *)

\* USBPDParser.__init__
metadata_init == [total_pages |-> 0, toc_pages |-> <<>>, sections_count |-> 0]

TocLine(id, title, num) == [pat |-> 1, id |-> id, title |-> title, num |-> num]

\* the lines a page of a document is made of: TOC lines as in
\* "2.10 Cable Plugs ........ 9", and a line of body text that matches no pattern
DocLines ==
    { TocLine(<<"1">>, "Introduction", <<"1">>),
      TocLine(<<"1", ".", "1">>, "Scope", <<"2">>),
      TocLine(<<"1", ".", "1", ".", "1">>, "Purpose", <<"2">>),
      TocLine(<<"2">>, "Overview", <<"3">>),
      TocLine(<<"2", ".", "2">>, "Power Contract", <<"4">>),
      TocLine(<<"2", ".", "9">>, "Message States", <<"7">>),
      TocLine(<<"2", ".", "1", "0">>, "Cable Plugs", <<"9">>),
      NoMatchLine }

LineSeqs == UNION { [1..k -> DocLines] : k \in 0..MaxLines }

\* the ways to break a sequence of k lines into n pages (page of each line)
PageBreaks(k, n) ==
    { f \in [1..k -> 1..n] : \A i \in 1..k, j \in 1..k : i < j => f[i] <= f[j] }

Paginate(ls, f, n) ==
    [p \in 1..n |->
        LET on == {i \in 1..Len(ls) : f[i] = p}
        IN  IF on = {} THEN <<>> ELSE SubSeq(ls, Min(on), Max(on))]

\* a limit below the page count of most documents and one above every page count
ScanLimits == {1, MaxPages + 1}

Init ==
    /\ \E n \in 1..MaxPages, ls \in LineSeqs :
           \E f \in PageBreaks(Len(ls), n) : pdf = Paginate(ls, f, n)
    /\ TOC_SCAN_PAGES \in ScanLimits
    /\ toc_entries = <<>>
    /\ section_entries = <<>>
    /\ metadata = metadata_init
    /\ ranges = <<>>
    /\ lastOp = "__init__"
    /\ line = NoMatchLine
    /\ entry = None
    /\ doc_type = ""
    /\ tag_title = <<>>
    /\ out = <<>>
    /\ NoRun

Next == extract_toc \/ extract_sections

Spec == Init /\ [][Next]_vars

-----------------------------------------------------------------------------
(* The line parser on its own: extract_toc_entry applied to one line *)

NPatterns == 5

Components == { <<"0">>, <<"1">>, <<"2">>, <<"3">>, <<"4">>, <<"1", "0">> }

SectionIds ==
    UNION { { join_dots(c) : c \in [1..d -> Components] } : d \in 1..MaxDepth }

PageFields == { <<"0">>, <<"5">>, <<"5", "3">> }

\* the fourth pattern ("Chapter N ...") captures an id of one component
ParserLines ==
    { l \in [pat : 1..NPatterns, id : SectionIds, title : {"Overview"},
             num : PageFields] : l.pat = 4 => count_dots(l.id) = 0 }
        \cup {NoMatchLine}

InitLine ==
    /\ line \in ParserLines
    /\ entry = None
    /\ lastOp = "__init__"
    /\ pdf = <<>>
    /\ TOC_SCAN_PAGES = 0
    /\ toc_entries = <<>>
    /\ section_entries = <<>>
    /\ metadata = metadata_init
    /\ ranges = <<>>
    /\ doc_type = ""
    /\ tag_title = <<>>
    /\ out = <<>>
    /\ NoRun

parse_line ==
    /\ lastOp = "__init__"
    /\ entry' = extract_toc_entry(line)
    /\ lastOp' = "extract_toc_entry"
    /\ UNCHANGED <<pdf, TOC_SCAN_PAGES, toc_entries, section_entries, metadata,
                   ranges, line, aside>>

NextLine == parse_line

SpecLine == InitLine /\ [][NextLine]_vars

-----------------------------------------------------------------------------
(* validation.find_section_gaps, has_gap *)

has_gap(current_id, next_id) ==
    LET current_parts == int_parts(current_id)
        next_parts    == int_parts(next_id)
        common_len    == common_prefix_len(current_parts, next_parts)
    IN  /\ Len(current_parts) = Len(next_parts)
        /\ common_len = Len(current_parts) - 1
        /\ next_parts[Len(next_parts)] # current_parts[Len(current_parts)] + 1

\* the keys of the dict levels, in insertion order: each level at its first entry
RECURSIVE level_keys(_, _)
level_keys(toc, seen) ==
    IF Len(toc) = 0 THEN <<>>
    ELSE IF Head(toc).level \in seen THEN level_keys(Tail(toc), seen)
    ELSE <<Head(toc).level>> \o level_keys(Tail(toc), seen \cup {Head(toc).level})

\* levels[level]: the entries of the level in list order, then sorted
level_entries(toc, level) ==
    LET is_level(e) == e.level = level
    IN  sort_entries(SelectSeq(toc, is_level))

\* the gaps appended for one sorted level list, from pair i on
RECURSIVE level_gaps(_, _, _)
level_gaps(entries, level, i) ==
    IF i > Len(entries) - 1 THEN <<>>
    ELSE (IF has_gap(entries[i].section_id, entries[i + 1].section_id)
          THEN <<[level          |-> level,
                  before_section |-> entries[i].section_id,
                  after_section  |-> entries[i + 1].section_id]>>
          ELSE <<>>)
         \o level_gaps(entries, level, i + 1)

RECURSIVE gaps_of_levels(_, _)
gaps_of_levels(toc, keys) ==
    IF Len(keys) = 0 THEN <<>>
    ELSE level_gaps(level_entries(toc, Head(keys)), Head(keys), 1)
         \o gaps_of_levels(toc, Tail(keys))

find_section_gaps(toc) == gaps_of_levels(toc, level_keys(toc, {}))

toc_sorted_in_place(toc) == sort_entries(toc)

\* toc_entries when find_section_gaps returns: the lists it sorts are the
\* lists of levels, built by append, never the argument
toc_after_find_section_gaps(toc) == toc

-----------------------------------------------------------------------------
(* validation.analyze_toc_vs_parsed *)

abs(x) == IF x < 0 THEN -x ELSE x

ids_of(entries) == { entries[i].section_id : i \in 1..Len(entries) }

\* next(s for s in section_entries if s["section_id"] == section_id)
first_with_id(entries, section_id) ==
    entries[Min({i \in 1..Len(entries) : entries[i].section_id = section_id})]

\* list(a_set): the members in the iteration order of the set, which follows
\* the hashes of the strings; order lists all ids in that order
list_of_set(a_set, order) ==
    LET member(x) == x \in a_set
    IN  SelectSeq(order, member)

difference_signed(toc_page, parsed_page) == toc_page - parsed_page

difference_of(toc_page, parsed_page) == abs(toc_page - parsed_page)

\* the entries in the order in which a loop over the set of their ids meets them
RECURSIVE entries_in_hash_order(_, _)
entries_in_hash_order(toc, order) ==
    IF Len(order) = 0 THEN <<>>
    ELSE LET has_id(e) == e.section_id = Head(order)
         IN  SelectSeq(toc, has_id) \o entries_in_hash_order(toc, Tail(order))

\* "for toc_entry in toc_entries": the loop that collects the order issues
\* runs over the list, whatever the iteration order of the sets
entries_scanned(toc, order) == toc

RECURSIVE order_issues_of(_, _, _)
order_issues_of(toc, secs, i) ==
    IF i > Len(toc) THEN <<>>
    ELSE LET toc_entry == toc[i]
             common    == ids_of(toc) \cap ids_of(secs)
         IN  (IF toc_entry.section_id \in common
                 /\ toc_entry.page # first_with_id(secs, toc_entry.section_id).page
              THEN LET parsed_entry == first_with_id(secs, toc_entry.section_id)
                   IN  <<[section_id  |-> toc_entry.section_id,
                          toc_page    |-> toc_entry.page,
                          parsed_page |-> parsed_entry.page,
                          difference  |-> difference_of(toc_entry.page,
                                                        parsed_entry.page)]>>
              ELSE <<>>)
             \o order_issues_of(toc, secs, i + 1)

\* a float that is the quotient num / den
Quotient(num, den) == [num |-> num, den |-> den]

coverage_per_entry(toc, secs) ==
    IF ids_of(toc) # {}
    THEN Quotient(Cardinality(ids_of(toc) \cap ids_of(secs)) * 100, Len(toc))
    ELSE Quotient(0, 1)

\* (len(common_ids) / len(toc_ids)) * 100 if toc_ids else 0
coverage_percentage(toc, secs) ==
    IF ids_of(toc) # {}
    THEN Quotient(Cardinality(ids_of(toc) \cap ids_of(secs)) * 100,
                  Cardinality(ids_of(toc)))
    ELSE Quotient(0, 1)

missing_wrong(toc, secs) == ids_of(toc)

missing_from_parsed(toc, secs) == ids_of(toc) \ ids_of(secs)

extra_wrong(toc, secs) == ids_of(secs)

extra_in_parsed(toc, secs) == ids_of(secs) \ ids_of(toc)

analyze_toc_vs_parsed(toc, secs, order) ==
    [total_toc_entries    |-> Len(toc),
     total_parsed_entries |-> Len(secs),
     missing_from_parsed  |-> list_of_set(missing_from_parsed(toc, secs), order),
     extra_in_parsed      |-> list_of_set(extra_in_parsed(toc, secs), order),
     common_entries       |-> Cardinality(ids_of(toc) \cap ids_of(secs)),
     order_issues         |-> order_issues_of(entries_scanned(toc, order), secs, 1),
     gaps                 |-> find_section_gaps(toc),
     coverage_percentage  |-> coverage_percentage(toc, secs)]

-----------------------------------------------------------------------------
(* validation.generate_validation_report, generate_summary_statistics *)
(* The columns content_length and tags, and the two length sums of the     *)
(* summary, count characters of text and are left out.                     *)

status_always_ok(parsed) == "OK"

\* "OK" if parsed_entry else "MISSING"
status_of(parsed) == IF parsed # None THEN "OK" ELSE "MISSING"

toc_row(toc_entry, secs) ==
    LET parsed == IF toc_entry.section_id \in ids_of(secs)
                  THEN Some(first_with_id(secs, toc_entry.section_id))
                  ELSE None
    IN  [section_id  |-> toc_entry.section_id,
         title       |-> toc_entry.title,
         toc_page    |-> Some(toc_entry.page),
         in_toc      |-> "YES",
         in_parsed   |-> IF parsed # None THEN "YES" ELSE "NO",
         parsed_page |-> IF parsed # None THEN Some(parsed[1].page) ELSE None,
         status      |-> status_of(parsed),
         level       |-> toc_entry.level,
         parent_id   |-> toc_entry.parent_id]

\* toc_page is "N/A"
extra_row(section_entry) ==
    [section_id  |-> section_entry.section_id,
     title       |-> section_entry.title,
     toc_page    |-> None,
     in_toc      |-> "NO",
     in_parsed   |-> "YES",
     parsed_page |-> Some(section_entry.page),
     status      |-> "EXTRA",
     level       |-> section_entry.level,
     parent_id   |-> section_entry.parent_id]

extra_rows(toc, secs) ==
    LET not_in_toc(s) == s.section_id \notin ids_of(toc)
        extras == SelectSeq(secs, not_in_toc)
    IN  [i \in 1..Len(extras) |-> extra_row(extras[i])]

\* report_data before and after report_data.sort
report_data(toc, secs) ==
    [i \in 1..Len(toc) |-> toc_row(toc[i], secs)] \o extra_rows(toc, secs)

generate_validation_report(toc, secs) == sort_entries(report_data(toc, secs))

page_range(entries) ==
    IF Len(entries) = 0 THEN <<0, 0>>
    ELSE <<Min({entries[i].page : i \in 1..Len(entries)}),
           Max({entries[i].page : i \in 1..Len(entries)})>>

generate_summary_statistics(toc, secs) ==
    [level_distribution |->
         [l \in {toc[i].level : i \in 1..Len(toc)} |->
             Cardinality({i \in 1..Len(toc) : toc[i].level = l})],
     toc_page_range        |-> page_range(toc),
     parsed_page_range     |-> page_range(secs),
     sections_with_content |->
         Cardinality({i \in 1..Len(secs) : secs[i].content # <<>>})]

-----------------------------------------------------------------------------
(* The validation functions called on lists of entries *)

MaxHeadings == 2
MaxContents == 2
MaxCalls == 2

heading(id, title, page) ==
    [section_id |-> id, title |-> title, page |-> page,
     level |-> level_of(id), parent_id |-> parent_of(id)]

HeadingPool ==
    { heading(<<"2">>, "Overview", 1),
      heading(<<"2", ".", "1">>, "Power Contract", 3),
      heading(<<"2", ".", "3">>, "Cable Plugs", 2) }

\* content records, one of them for an id that no heading has
SectionPool ==
    { section_entry_of(heading(<<"2">>, "Overview", 2), <<NoMatchLine>>),
      section_entry_of(heading(<<"2", ".", "1">>, "Power Contract", 1), <<NoMatchLine>>),
      section_entry_of(heading(<<"2", ".", "1">>, "Power Contract", 3), <<NoMatchLine>>),
      section_entry_of(heading(<<"9">>, "Annex", 3), <<NoMatchLine>>) }

SeqsUpTo(S, n) == UNION { [1..k -> S] : k \in 0..n }

\* the orders in which a set of strings can iterate
Orders(S) ==
    { f \in [1..Cardinality(S) -> S] :
        \A i \in 1..Cardinality(S), j \in 1..Cardinality(S) : i # j => f[i] # f[j] }

InitRecon ==
    /\ toc_entries \in SeqsUpTo(HeadingPool, MaxHeadings)
    /\ section_entries \in SeqsUpTo(SectionPool, MaxContents)
    /\ out = <<>>
    /\ NoRun
    /\ lastOp = "__init__"
    /\ pdf = <<>>
    /\ TOC_SCAN_PAGES = 0
    /\ metadata = metadata_init
    /\ ranges = <<>>
    /\ line = NoMatchLine
    /\ entry = None
    /\ doc_type = ""
    /\ tag_title = <<>>

\* a function returns; a later call is a run of the same function again
returned(op, value) ==
    /\ Len(out) < MaxCalls
    /\ out # <<>> => out[1].op = op
    /\ out' = Append(out, [op |-> op, value |-> value])
    /\ lastOp' = op
    /\ UNCHANGED <<pdf, TOC_SCAN_PAGES, metadata, ranges, line, entry,
                   doc_type, tag_title, cli>>

call_analyze_toc_vs_parsed ==
    /\ \E order \in Orders(ids_of(toc_entries) \cup ids_of(section_entries)) :
           returned("analyze_toc_vs_parsed",
                    analyze_toc_vs_parsed(toc_entries, section_entries, order))
    /\ toc_entries' = toc_after_find_section_gaps(toc_entries)
    /\ section_entries' = section_entries

call_find_section_gaps ==
    /\ returned("find_section_gaps", find_section_gaps(toc_entries))
    /\ toc_entries' = toc_after_find_section_gaps(toc_entries)
    /\ section_entries' = section_entries

call_generate_validation_report ==
    /\ returned("generate_validation_report",
                generate_validation_report(toc_entries, section_entries))
    /\ toc_entries' = toc_after_find_section_gaps(toc_entries)
    /\ section_entries' = section_entries

call_generate_summary_statistics ==
    /\ returned("generate_summary_statistics",
                generate_summary_statistics(toc_entries, section_entries))
    /\ UNCHANGED <<toc_entries, section_entries>>

NextRecon ==
    \/ call_analyze_toc_vs_parsed
    \/ call_find_section_gaps
    \/ call_generate_validation_report
    \/ call_generate_summary_statistics

SpecRecon == InitRecon /\ [][NextRecon]_vars

-----------------------------------------------------------------------------
(* find_section_gaps on lists of headings with neighbouring numbers *)

MaxSiblings == 3

SiblingPool ==
    { heading(<<"2", ".", "1">>, "Power Contract", 1),
      heading(<<"2", ".", "2">>, "Message States", 1),
      heading(<<"2", ".", "3">>, "Cable Plugs", 1),
      heading(<<"2", ".", "4">>, "Scope", 1),
      heading(<<"2", ".", "9">>, "Purpose", 1),
      heading(<<"3", ".", "1">>, "Annex", 1),
      heading(<<"3">>, "Overview", 1) }

InitGaps ==
    /\ toc_entries \in SeqsUpTo(SiblingPool, MaxSiblings)
    /\ section_entries = <<>>
    /\ out = <<>>
    /\ NoRun
    /\ lastOp = "__init__"
    /\ pdf = <<>>
    /\ TOC_SCAN_PAGES = 0
    /\ metadata = metadata_init
    /\ ranges = <<>>
    /\ line = NoMatchLine
    /\ entry = None
    /\ doc_type = ""
    /\ tag_title = <<>>

NextGaps == call_find_section_gaps

SpecGaps == InitGaps /\ [][NextGaps]_vars

-----------------------------------------------------------------------------
(* The command line run: the parser, then the validation report *)

MaxReportLines == 3

ReportLines ==
    { TocLine(<<"1">>, "Introduction", <<"1">>),
      TocLine(<<"2">>, "Overview", <<"3">>),
      NoMatchLine }

InitReport ==
    /\ \E n \in 1..MaxPages, ls \in SeqsUpTo(ReportLines, MaxReportLines) :
           \E f \in PageBreaks(Len(ls), n) : pdf = Paginate(ls, f, n)
    /\ TOC_SCAN_PAGES \in ScanLimits
    /\ toc_entries = <<>>
    /\ section_entries = <<>>
    /\ metadata = metadata_init
    /\ ranges = <<>>
    /\ lastOp = "__init__"
    /\ line = NoMatchLine
    /\ entry = None
    /\ doc_type = ""
    /\ tag_title = <<>>
    /\ out = <<>>
    /\ NoRun

\* main: the report on the parser's toc_entries and section_entries
main_generate_validation_report ==
    /\ lastOp = "extract_sections"
    /\ out' = <<[op    |-> "generate_validation_report",
                 value |-> generate_validation_report(toc_entries, section_entries)]>>
    /\ lastOp' = "generate_validation_report"
    /\ toc_entries' = toc_after_find_section_gaps(toc_entries)
    /\ UNCHANGED <<pdf, TOC_SCAN_PAGES, section_entries, metadata, ranges, line,
                   entry, doc_type, tag_title, cli>>

\* main: the analysis of the same two lists, after the report
main_analyze_toc_vs_parsed ==
    /\ lastOp = "generate_validation_report"
    /\ \E order \in Orders(ids_of(toc_entries) \cup ids_of(section_entries)) :
           out' = Append(out,
                         [op    |-> "analyze_toc_vs_parsed",
                          value |-> analyze_toc_vs_parsed(toc_entries,
                                                          section_entries, order)])
    /\ lastOp' = "analyze_toc_vs_parsed"
    /\ toc_entries' = toc_after_find_section_gaps(toc_entries)
    /\ UNCHANGED <<pdf, TOC_SCAN_PAGES, section_entries, metadata, ranges, line,
                   entry, doc_type, tag_title, cli>>

NextReport ==
    \/ extract_toc
    \/ extract_sections
    \/ main_generate_validation_report
    \/ main_analyze_toc_vs_parsed

SpecReport == InitReport /\ [][NextReport]_vars

-----------------------------------------------------------------------------
(* utils.generate_tags *)

UpperCase ==
    <<"A", "B", "C", "D", "E", "F", "G", "H", "I", "J", "K", "L", "M",
      "N", "O", "P", "Q", "R", "S", "T", "U", "V", "W", "X", "Y", "Z">>

LowerCase ==
    <<"a", "b", "c", "d", "e", "f", "g", "h", "i", "j", "k", "l", "m",
      "n", "o", "p", "q", "r", "s", "t", "u", "v", "w", "x", "y", "z">>

\* str.lower
lower(s) ==
    [i \in 1..Len(s) |->
        IF \E n \in 1..Len(UpperCase) : UpperCase[n] = s[i]
        THEN LowerCase[CHOOSE n \in 1..Len(UpperCase) : UpperCase[n] = s[i]]
        ELSE s[i]]

\* word in text
in_str(word, text) ==
    \E i \in 0..(Len(text) - Len(word)) : SubSeq(text, i + 1, i + Len(word)) = word

\* the word lists of generate_tags and the tag each one appends, in order
TagRules ==
    <<[words |-> { <<"p", "o", "w", "e", "r">>,
                   <<"v", "o", "l", "t", "a", "g", "e">>,
                   <<"c", "u", "r", "r", "e", "n", "t">> },
       tag |-> "power_management"],
      [words |-> { <<"n", "e", "g", "o", "t", "i", "a", "t", "i", "o", "n">>,
                   <<"c", "o", "n", "t", "r", "a", "c", "t">>,
                   <<"a", "g", "r", "e", "e", "m", "e", "n", "t">> },
       tag |-> "negotiation"],
      [words |-> { <<"c", "o", "m", "m", "u", "n", "i", "c", "a", "t", "i", "o", "n">>,
                   <<"p", "r", "o", "t", "o", "c", "o", "l">>,
                   <<"m", "e", "s", "s", "a", "g", "e">> },
       tag |-> "communication"],
      [words |-> { <<"s", "t", "a", "t", "e">>,
                   <<"m", "a", "c", "h", "i", "n", "e">>,
                   <<"t", "r", "a", "n", "s", "i", "t", "i", "o", "n">> },
       tag |-> "state_machine"],
      [words |-> { <<"c", "a", "b", "l", "e">>,
                   <<"c", "o", "n", "n", "e", "c", "t", "o", "r">>,
                   <<"p", "l", "u", "g">> },
       tag |-> "hardware"],
      [words |-> { <<"c", "o", "m", "p", "a", "t", "i", "b", "i", "l", "i", "t", "y">>,
                   <<"r", "e", "v", "i", "s", "i", "o", "n">>,
                   <<"v", "e", "r", "s", "i", "o", "n">> },
       tag |-> "compatibility"],
      [words |-> { <<"o", "v", "e", "r", "v", "i", "e", "w">>,
                   <<"i", "n", "t", "r", "o", "d", "u", "c", "t", "i", "o", "n">>,
                   <<"b", "a", "c", "k", "g", "r", "o", "u", "n", "d">> },
       tag |-> "overview"],
      [words |-> { <<"t", "a", "b", "l", "e">>,
                   <<"f", "i", "g", "u", "r", "e">>,
                   <<"d", "i", "a", "g", "r", "a", "m">> },
       tag |-> "reference"]>>

generate_tags(title) ==
    LET title_lower == lower(title)
        applies(rule) == \E word \in rule.words : in_str(word, title_lower)
        rules == SelectSeq(TagRules, applies)
    IN  [i \in 1..Len(rules) |-> rules[i].tag]

-----------------------------------------------------------------------------
(* document_configs: the profiles and get_document_config *)
(* The regular expressions of a profile (toc_patterns, content_cleanup_rules) *)
(* are left out of its record.                                                *)

USBPDConfig ==
    [doc_type |-> "usb_pd",
     tag_mapping |->
      { <<<<"p", "o", "w", "e", "r">>, "power_management">>,
        <<<<"v", "o", "l", "t", "a", "g", "e">>, "power_management">>,
        <<<<"c", "u", "r", "r", "e", "n", "t">>, "power_management">>,
        <<<<"w", "a", "t", "t">>, "power_management">>,
        <<<<"n", "e", "g", "o", "t", "i", "a", "t", "i", "o", "n">>, "negotiation">>,
        <<<<"c", "o", "n", "t", "r", "a", "c", "t">>, "negotiation">>,
        <<<<"a", "g", "r", "e", "e", "m", "e", "n", "t">>, "negotiation">>,
        <<<<"c", "o", "m", "m", "u", "n", "i", "c", "a", "t", "i", "o", "n">>, "communication">>,
        <<<<"p", "r", "o", "t", "o", "c", "o", "l">>, "communication">>,
        <<<<"m", "e", "s", "s", "a", "g", "e">>, "communication">>,
        <<<<"c", "c">>, "communication">>,
        <<<<"s", "t", "a", "t", "e">>, "state_machine">>,
        <<<<"m", "a", "c", "h", "i", "n", "e">>, "state_machine">>,
        <<<<"t", "r", "a", "n", "s", "i", "t", "i", "o", "n">>, "state_machine">>,
        <<<<"c", "a", "b", "l", "e">>, "hardware">>,
        <<<<"c", "o", "n", "n", "e", "c", "t", "o", "r">>, "hardware">>,
        <<<<"p", "l", "u", "g">>, "hardware">>,
        <<<<"r", "e", "c", "e", "p", "t", "a", "c", "l", "e">>, "hardware">>,
        <<<<"c", "o", "m", "p", "a", "t", "i", "b", "i", "l", "i", "t", "y">>, "compatibility">>,
        <<<<"r", "e", "v", "i", "s", "i", "o", "n">>, "compatibility">>,
        <<<<"v", "e", "r", "s", "i", "o", "n">>, "compatibility">>,
        <<<<"o", "v", "e", "r", "v", "i", "e", "w">>, "overview">>,
        <<<<"i", "n", "t", "r", "o", "d", "u", "c", "t", "i", "o", "n">>, "overview">>,
        <<<<"b", "a", "c", "k", "g", "r", "o", "u", "n", "d">>, "overview">>,
        <<<<"t", "a", "b", "l", "e">>, "reference">>,
        <<<<"f", "i", "g", "u", "r", "e">>, "reference">>,
        <<<<"d", "i", "a", "g", "r", "a", "m">>, "reference">>,
        <<<<"s", "a", "f", "e", "t", "y">>, "safety">>,
        <<<<"p", "r", "o", "t", "e", "c", "t", "i", "o", "n">>, "safety">>,
        <<<<"f", "a", "u", "l", "t">>, "safety">> },
     toc_scan_pages |-> 15,
     max_file_size_mb |-> 100]

GenericTechSpecConfig ==
    [doc_type |-> "generic_tech_spec",
     tag_mapping |->
      { <<<<"o", "v", "e", "r", "v", "i", "e", "w">>, "overview">>,
        <<<<"i", "n", "t", "r", "o", "d", "u", "c", "t", "i", "o", "n">>, "overview">>,
        <<<<"b", "a", "c", "k", "g", "r", "o", "u", "n", "d">>, "overview">>,
        <<<<"s", "p", "e", "c", "i", "f", "i", "c", "a", "t", "i", "o", "n">>, "specification">>,
        <<<<"r", "e", "q", "u", "i", "r", "e", "m", "e", "n", "t">>, "requirement">>,
        <<<<"i", "m", "p", "l", "e", "m", "e", "n", "t", "a", "t", "i", "o", "n">>, "implementation">>,
        <<<<"t", "e", "s", "t", "i", "n", "g">>, "testing">>,
        <<<<"v", "a", "l", "i", "d", "a", "t", "i", "o", "n">>, "validation">>,
        <<<<"r", "e", "f", "e", "r", "e", "n", "c", "e">>, "reference">>,
        <<<<"a", "p", "p", "e", "n", "d", "i", "x">>, "appendix">>,
        <<<<"a", "n", "n", "e", "x">>, "appendix">> },
     toc_scan_pages |-> 10,
     max_file_size_mb |-> 50]

IEEEStandardConfig ==
    [doc_type |-> "ieee_standard",
     tag_mapping |->
      { <<<<"s", "c", "o", "p", "e">>, "scope">>,
        <<<<"n", "o", "r", "m", "a", "t", "i", "v", "e">>, "normative">>,
        <<<<"i", "n", "f", "o", "r", "m", "a", "t", "i", "v", "e">>, "informative">>,
        <<<<"r", "e", "f", "e", "r", "e", "n", "c", "e">>, "reference">>,
        <<<<"d", "e", "f", "i", "n", "i", "t", "i", "o", "n">>, "definition">>,
        <<<<"s", "y", "m", "b", "o", "l", "s">>, "symbols">>,
        <<<<"a", "b", "b", "r", "e", "v", "i", "a", "t", "i", "o", "n", "s">>, "abbreviations">>,
        <<<<"c", "o", "n", "f", "o", "r", "m", "a", "n", "c", "e">>, "conformance">>,
        <<<<"t", "e", "s", "t">>, "testing">>,
        <<<<"m", "e", "a", "s", "u", "r", "e", "m", "e", "n", "t">>, "measurement">>,
        <<<<"s", "a", "f", "e", "t", "y">>, "safety">>,
        <<<<"e", "n", "v", "i", "r", "o", "n", "m", "e", "n", "t", "a", "l">>, "environmental">> },
     toc_scan_pages |-> 20,
     max_file_size_mb |-> 200]

configs ==
    [key \in {"usb_pd", "generic", "ieee"} |->
        CASE key = "usb_pd" -> USBPDConfig
          [] key = "generic" -> GenericTechSpecConfig
          [] key = "ieee" -> IEEEStandardConfig]

\* how a call ends: with a value, or with an exception
returns(value) == [raised |-> FALSE, value |-> value]
raises(exception) == [raised |-> TRUE, value |-> exception]

key_as_given(key) == key

\* if doc_type not in configs: doc_type = "generic"
key_looked_up(key) == IF key \notin DOMAIN configs THEN "generic" ELSE key

\* configs[doc_type]()
get_document_config(key) ==
    IF key_looked_up(key) \in DOMAIN configs
    THEN returns(configs[key_looked_up(key)])
    ELSE raises("KeyError")

-----------------------------------------------------------------------------
(* Profiles requested by key, and titles tagged *)

MaxTitleWords == 2

DocTypes == {"usb_pd", "generic", "ieee", "ieee_standard", "pdf", ""}

TitleWords ==
    { <<"P", "o", "w", "e", "r">>, <<"W", "A", "T", "T", "A", "G", "E">>,
      <<"S", "a", "f", "e", "t", "y">>, <<"S", "t", "a", "b", "l", "e">>,
      <<"P", "r", "o", "t", "o", "c", "o", "l">>,
      <<"S", "c", "o", "p", "e">>, <<"P", "l", "a", "n">> }

RECURSIVE join_words(_)
join_words(ws) ==
    IF Len(ws) = 0 THEN <<>>
    ELSE IF Len(ws) = 1 THEN ws[1]
    ELSE ws[1] \o <<" ">> \o join_words(Tail(ws))

Titles == { join_words(ws) : ws \in SeqsUpTo(TitleWords, MaxTitleWords) }

InitProfile ==
    /\ doc_type \in DocTypes
    /\ tag_title \in Titles
    /\ out = <<>>
    /\ NoRun
    /\ lastOp = "__init__"
    /\ pdf = <<>>
    /\ TOC_SCAN_PAGES = 0
    /\ toc_entries = <<>>
    /\ section_entries = <<>>
    /\ metadata = metadata_init
    /\ ranges = <<>>
    /\ line = NoMatchLine
    /\ entry = None

call_get_document_config ==
    /\ returned("get_document_config", get_document_config(doc_type))
    /\ UNCHANGED <<toc_entries, section_entries>>

call_generate_tags ==
    /\ returned("generate_tags", generate_tags(tag_title))
    /\ UNCHANGED <<toc_entries, section_entries>>

NextProfile == call_get_document_config \/ call_generate_tags

SpecProfile == InitProfile /\ [][NextProfile]_vars

-----------------------------------------------------------------------------
(* TOC scans of one parser under a scan limit that is set between the calls *)

\* Config.TOC_SCAN_PAGES = args.toc_pages
set_TOC_SCAN_PAGES ==
    /\ \E toc_pages \in ScanLimits \ {TOC_SCAN_PAGES} : TOC_SCAN_PAGES' = toc_pages
    /\ lastOp' = "Config.TOC_SCAN_PAGES"
    /\ UNCHANGED <<pdf, toc_entries, section_entries, metadata, ranges, line,
                   entry, aside>>

NextScan == extract_toc \/ set_TOC_SCAN_PAGES

SpecScan == InitReport /\ [][NextScan]_vars

-----------------------------------------------------------------------------
(* scripts/parse_usb_pd.py: main, with USBPDParser.parse_complete              *)
(* A stage ends normally, raises an Exception, or the user interrupts the run  *)
(* during it (KeyboardInterrupt). A stage of the parser that does not end      *)
(* normally is taken to stop where it opens the document, after it has reset   *)
(* its list. The counts of tables and figures are not part of the metadata     *)
(* modelled. out is the log of the stages that were started, with how each     *)
(* ended, and of what parse_complete handed to main.                           *)

MaxCliLines == 1

Suffixes ==
    { <<".", "p", "d", "f">>, <<".", "P", "D", "F">>, <<".", "t", "x", "t">>, <<>> }

StageOutcomes == {"ok", "Exception", "KeyboardInterrupt"}

\* the files of save_outputs, in the order in which it writes them
record_files == <<"usb_pd_toc.jsonl", "usb_pd_spec.jsonl", "usb_pd_metadata.jsonl">>

InitCli ==
    /\ args \in [exists : BOOLEAN, suffix : Suffixes, toc_pages : ScanLimits]
    /\ IF args.exists
       THEN \E n \in 1..MaxPages, ls \in SeqsUpTo(ReportLines, MaxCliLines) :
                \E f \in PageBreaks(Len(ls), n) : pdf = Paginate(ls, f, n)
       ELSE pdf = <<>>
    /\ TOC_SCAN_PAGES \in ScanLimits
    /\ pc = "main"
    /\ files = {}
    /\ exit_code = None
    /\ toc_entries = <<>>
    /\ section_entries = <<>>
    /\ metadata = metadata_init
    /\ ranges = <<>>
    /\ lastOp = "__init__"
    /\ line = NoMatchLine
    /\ entry = None
    /\ doc_type = ""
    /\ tag_title = <<>>
    /\ out = <<>>

suffix_unchecked(suffix) == TRUE

\* pdf_path.suffix.lower() == '.pdf'
suffix_is_pdf(suffix) == lower(suffix) = <<".", "p", "d", "f">>

\* the two checks of the input path; sys.exit(1) when one fails
main_validate_input ==
    /\ pc = "main"
    /\ IF ~args.exists \/ ~suffix_is_pdf(args.suffix)
       THEN pc' = "exited" /\ exit_code' = Some(1)
       ELSE pc' = "Config" /\ exit_code' = exit_code
    /\ UNCHANGED <<pdf, TOC_SCAN_PAGES, toc_entries, section_entries, metadata,
                   ranges, lastOp, line, entry, doc_type, tag_title, out, files,
                   args>>

\* Config.TOC_SCAN_PAGES = args.toc_pages, then USBPDParser(...)
main_update_config ==
    /\ pc = "Config"
    /\ TOC_SCAN_PAGES' = args.toc_pages
    /\ pc' = "extract_toc"
    /\ UNCHANGED <<pdf, toc_entries, section_entries, metadata, ranges, lastOp,
                   line, entry, doc_type, tag_title, out, files, exit_code, args>>

caught_nothing(outcome) == FALSE

\* except Exception
caught(outcome) == outcome = "Exception"

\* what parse_complete hands to main when a stage has ended: nothing yet,
\* True after the last stage, False from its handler, or the exception itself
parse_complete_returned(outcome, next) ==
    IF outcome = "ok"
    THEN IF next = "generate_validation_report"
         THEN <<[op |-> "parse_complete", value |-> "True"]>>
         ELSE <<>>
    ELSE IF caught(outcome)
    THEN <<[op |-> "parse_complete", value |-> "False"]>>
    ELSE <<[op |-> "parse_complete", value |-> outcome]>>

\* a stage of parse_complete has ended: the next stage, or sys.exit(1) in
\* main (on False, or in the handler of what parse_complete let through)
stage_ended(op, outcome, next) ==
    /\ out' = out \o <<[op |-> op, value |-> outcome]>>
                  \o parse_complete_returned(outcome, next)
    /\ pc' = IF outcome = "ok" THEN next ELSE "exited"
    /\ exit_code' = IF outcome = "ok" THEN exit_code ELSE Some(1)
    /\ lastOp' = op

parse_complete_extract_toc ==
    /\ pc = "extract_toc"
    /\ \E outcome \in StageOutcomes :
           /\ stage_ended("extract_toc", outcome, "count_tables_and_figures")
           /\ toc_entries' =
                  IF outcome = "ok"
                  THEN toc_after_extract_toc(toc_entries, pdf, TOC_SCAN_PAGES)
                  ELSE toc_at_start(toc_entries)
           /\ metadata' =
                  IF outcome = "ok"
                  THEN metadata_after_extract_toc(metadata, pdf, TOC_SCAN_PAGES)
                  ELSE metadata
    /\ UNCHANGED <<pdf, TOC_SCAN_PAGES, section_entries, ranges, line, entry,
                   doc_type, tag_title, files, args>>

parse_complete_count_tables_and_figures ==
    /\ pc = "count_tables_and_figures"
    /\ \E outcome \in StageOutcomes :
           stage_ended("count_tables_and_figures", outcome, "extract_sections")
    /\ UNCHANGED <<pdf, TOC_SCAN_PAGES, toc_entries, section_entries, metadata,
                   ranges, line, entry, doc_type, tag_title, files, args>>

parse_complete_extract_sections ==
    /\ pc = "extract_sections"
    /\ \E outcome \in StageOutcomes :
           LET scan == (toc_entries = <<>>)
               toc  == IF scan
                       THEN toc_after_extract_toc(toc_entries, pdf, TOC_SCAN_PAGES)
                       ELSE toc_entries
               md   == IF scan
                       THEN metadata_after_extract_toc(metadata, pdf, TOC_SCAN_PAGES)
                       ELSE metadata
               secs == section_entries_at_start(section_entries)
                           \o sections_from(pdf, toc, 1)
           IN  /\ stage_ended("extract_sections", outcome, "save_outputs")
               /\ IF outcome = "ok"
                  THEN /\ toc_entries' = toc_after_sections(pdf, toc)
                       /\ section_entries' = secs
                       /\ metadata' = [md EXCEPT !.sections_count = Len(secs)]
                       /\ ranges' =
                              [i \in 1..Len(toc) |-> section_range(pdf, toc, toc[i])]
                  ELSE /\ toc_entries' = toc
                       /\ section_entries' = section_entries_at_start(section_entries)
                       /\ metadata' = md
                       /\ ranges' = ranges
    /\ UNCHANGED <<pdf, TOC_SCAN_PAGES, line, entry, doc_type, tag_title, files,
                   args>>

\* save_outputs writes the three files one after the other; when it does not
\* end normally, the files it had opened so far exist
parse_complete_save_outputs ==
    /\ pc = "save_outputs"
    /\ \E outcome \in StageOutcomes, written \in 0..Len(record_files) :
           /\ (outcome = "ok") <=> (written = Len(record_files))
           /\ stage_ended("save_outputs", outcome, "generate_validation_report")
           /\ files' = files \cup { record_files[k] : k \in 1..written }
    /\ UNCHANGED <<pdf, TOC_SCAN_PAGES, toc_entries, section_entries, metadata,
                   ranges, line, entry, doc_type, tag_title, args>>

\* a step of main after parse_complete has ended: the next step, or
\* sys.exit(1) in one of the two handlers of main
step_ended(op, outcome, next) ==
    /\ out' = Append(out, [op |-> op, value |-> outcome])
    /\ pc' = IF outcome = "ok" THEN next ELSE "exited"
    /\ exit_code' = IF outcome = "ok" THEN exit_code ELSE Some(1)
    /\ lastOp' = op

\* generate_validation_report, analyze_toc_vs_parsed, generate_summary_statistics
main_validation ==
    /\ pc = "generate_validation_report"
    /\ \E outcome \in StageOutcomes :
           step_ended("generate_validation_report", outcome, "save_validation_report")
    /\ UNCHANGED <<pdf, TOC_SCAN_PAGES, toc_entries, section_entries, metadata,
                   ranges, line, entry, doc_type, tag_title, files, args>>

main_save_validation_report ==
    /\ pc = "save_validation_report"
    /\ \E outcome \in StageOutcomes, opened \in BOOLEAN :
           /\ outcome = "ok" => opened
           /\ step_ended("save_validation_report", outcome, "print_validation_summary")
           /\ files' = IF opened THEN files \cup {"validation_report.xlsx"} ELSE files
    /\ UNCHANGED <<pdf, TOC_SCAN_PAGES, toc_entries, section_entries, metadata,
                   ranges, line, entry, doc_type, tag_title, args>>

\* print_validation_summary and the last prints; main returns, exit status 0
main_print_validation_summary ==
    /\ pc = "print_validation_summary"
    /\ \E outcome \in StageOutcomes :
           /\ out' = Append(out, [op |-> "print_validation_summary", value |-> outcome])
           /\ exit_code' = IF outcome = "ok" THEN Some(0) ELSE Some(1)
    /\ pc' = "exited"
    /\ lastOp' = "print_validation_summary"
    /\ UNCHANGED <<pdf, TOC_SCAN_PAGES, toc_entries, section_entries, metadata,
                   ranges, line, entry, doc_type, tag_title, files, args>>

NextCli ==
    \/ main_validate_input
    \/ main_update_config
    \/ parse_complete_extract_toc
    \/ parse_complete_count_tables_and_figures
    \/ parse_complete_extract_sections
    \/ parse_complete_save_outputs
    \/ main_validation
    \/ main_save_validation_report
    \/ main_print_validation_summary

SpecCli == InitCli /\ [][NextCli]_vars

-----------------------------------------------------------------------------
(* Vocabulary of the properties *)

NumComponents(section_id) == Len(split_dots(section_id))

\* a is a proper prefix of b
ProperPrefix(a, b) ==
    /\ Len(a) < Len(b)
    /\ \A m \in 1..Len(a) : a[m] = b[m]

\* a comes strictly before b, comparing component by component as integers
NumericBefore(a, b) ==
    \/ ProperPrefix(a, b)
    \/ \E k \in 1..Len(a) :
          /\ k <= Len(b)
          /\ \A m \in 1..(k - 1) : a[m] = b[m]
          /\ a[k] < b[k]

TocIds == [i \in 1..Len(toc_entries) |-> toc_entries[i].section_id]

Descendant(j, i) ==
    ProperPrefix(int_parts(toc_entries[i].section_id),
                 int_parts(toc_entries[j].section_id))

\* the headings after i in the list with at most level(i) components
LaterSameOrHigher(i) ==
    { j \in (i + 1)..Len(toc_entries) :
        NumComponents(toc_entries[j].section_id) <= toc_entries[i].level }

SectionsRun == lastOp = "extract_sections"

\* the text of the pages lo..hi of the document that yield text, in page order
RECURSIVE TextOfPages(_, _)
TextOfPages(lo, hi) ==
    IF lo > hi \/ lo > Len(pdf) THEN <<>>
    ELSE (IF lo >= 1 THEN pdf[lo] ELSE <<>>) \o TextOfPages(lo + 1, hi)

ContentLines(c) == IF c = None THEN <<>> ELSE c[1]

\* the TOC lines of the document that carry the id and title of a heading
LinesOf(e) ==
    { l \in UNION { {pdf[p][k] : k \in 1..Len(pdf[p])} : p \in 1..Len(pdf) } :
        l.pat # 0 /\ l.id = e.section_id /\ l.title = e.title }

-----------------------------------------------------------------------------
(* C1 .. C10 *)

\* C1: the end page of every heading h of the sorted list is the page of the
\* first heading after h with at most level(h) components, and no heading
\* that precedes h in the list terminates its span.
C1_EndPageIsFirstLaterSameOrHigher ==
    SectionsRun =>
        \A i \in 1..Len(toc_entries) :
            /\ ranges[i].closed_by \notin 1..(i - 1)
            /\ LaterSameOrHigher(i) # {} =>
                  ranges[i].end_page = toc_entries[Min(LaterSameOrHigher(i))].page

\* C2: a descendant of a heading, at any depth, never closes its span: the
\* heading that closes it has at most level(h) components.
C2_DescendantsNeverClose ==
    SectionsRun =>
        \A i \in 1..Len(toc_entries) :
            LET k == ranges[i].closed_by
            IN  k # 0 =>
                  /\ ~Descendant(k, i)
                  /\ NumComponents(toc_entries[k].section_id) <= toc_entries[i].level

\* C3: when no heading after h has at most level(h) components, the span of h
\* ends at the page count of the document.
C3_LastSpanRunsToDocumentEnd ==
    SectionsRun =>
        \A i \in 1..Len(toc_entries) :
            LaterSameOrHigher(i) = {} => ranges[i].end_page = Len(pdf)

\* C4: a heading with no descendants and no following same-or-higher heading
\* has an end page not below its start page, and the pages read for it are
\* not empty and contain its start page.
C4_SingletonRangeNotEmpty ==
    SectionsRun =>
        \A i \in 1..Len(toc_entries) :
            (/\ LaterSameOrHigher(i) = {}
             /\ \A j \in 1..Len(toc_entries) : ~Descendant(j, i))
            => /\ ranges[i].end_page >= ranges[i].start_page
               /\ \E n \in 1..Len(ranges[i].pages) :
                     ranges[i].pages[n] = ranges[i].start_page

\* C5 as claimed: the content of a heading is the text of the pages p with
\* startPage <= p < endPage, clamped to the page count; page endPage is not read.
C5_ContentIsEndExclusive ==
    SectionsRun =>
        \A i \in 1..Len(toc_entries) :
            ContentLines(ranges[i].content) =
                TextOfPages(ranges[i].start_page, ranges[i].end_page - 1)

\* C5 as amended: the content of a heading is the text of the pages p with
\* startPage <= p <= endPage, clamped to the page count, that yield text, in
\* ascending page order joined by a line break; page endPage is read too, and
\* every section entry carries that content.
C5_ContentIsEndInclusive ==
    SectionsRun =>
        /\ \A i \in 1..Len(toc_entries) :
              /\ ContentLines(ranges[i].content) =
                    TextOfPages(ranges[i].start_page, ranges[i].end_page)
              /\ \A n \in 1..Len(ranges[i].pages) :
                    /\ ranges[i].start_page <= ranges[i].pages[n]
                    /\ ranges[i].pages[n] <= ranges[i].end_page
                    /\ ranges[i].pages[n] <= Len(pdf)
        /\ \A n \in 1..Len(section_entries) :
              \E i \in 1..Len(toc_entries) :
                  /\ toc_entries[i].section_id = section_entries[n].section_id
                  /\ toc_entries[i].page = section_entries[n].page
                  /\ ranges[i].content = Some(section_entries[n].content)

\* C5 witness: a heading whose span covers two pages with text, the second
\* being its end page, has been extracted.
C5_Witness ==
    /\ SectionsRun
    /\ \E i \in 1..Len(toc_entries) :
          /\ ranges[i].start_page < ranges[i].end_page
          /\ ranges[i].end_page <= Len(pdf)
          /\ pdf[ranges[i].start_page] # <<>>
          /\ pdf[ranges[i].end_page] # <<>>
          /\ ranges[i].content # None

\* C6: after the TOC scan each heading's page is the page field of its TOC
\* line, not the number of the page the line was found on.
C6_PageIsTocLineField ==
    lastOp # "__init__" =>
        \A i \in 1..Len(toc_entries) :
            \E l \in LinesOf(toc_entries[i]) : toc_entries[i].page = int(l.num)

ScannedIds ==
    LET scanned == scan_pages(pdf, TOC_SCAN_PAGES, 1)
    IN  [i \in 1..Len(scanned) |-> scanned[i].section_id]

\* C7: toc_entries is in ascending order of section id compared component by
\* component as integers (not as strings), and a parent precedes its
\* descendants; scan order 2.10, 2.2, 2.9 gives 2.2, 2.9, 2.10.
C7_SortedNumerically ==
    /\ \A i \in 1..Len(toc_entries), j \in 1..Len(toc_entries) :
          /\ i < j => ~NumericBefore(int_parts(toc_entries[j].section_id),
                                     int_parts(toc_entries[i].section_id))
          /\ Descendant(j, i) => i < j
    /\ (/\ lastOp # "__init__"
        /\ ScannedIds = << <<"2", ".", "1", "0">>, <<"2", ".", "2">>,
                           <<"2", ".", "9">> >>)
       => TocIds = << <<"2", ".", "2">>, <<"2", ".", "9">>,
                      <<"2", ".", "1", "0">> >>

\* C7 witness: the scan met 2.10 before 2.9 and the list holds 2.9 before 2.10.
C7_Witness ==
    /\ lastOp = "extract_toc"
    /\ ScannedIds = << <<"2", ".", "1", "0">>, <<"2", ".", "9">> >>
    /\ TocIds = << <<"2", ".", "9">>, <<"2", ".", "1", "0">> >>

\* C8: after tree building no two headings of toc_entries share a section id.
C8_SectionIdsUnique ==
    lastOp # "__init__" =>
        \A i \in 1..Len(toc_entries), j \in 1..Len(toc_entries) :
            i # j => toc_entries[i].section_id # toc_entries[j].section_id

\* C9: every heading of toc_entries has a page between 1 and the number of
\* pages of the document.
C9_PageWithinDocument ==
    \A i \in 1..Len(toc_entries) :
        /\ 1 <= toc_entries[i].page
        /\ toc_entries[i].page <= Len(pdf)
        /\ toc_entries[i].page <= metadata.total_pages

\* C9 witness: extract_toc has kept a heading whose TOC line names a page
\* beyond the last page of the document.
C9_Witness ==
    /\ lastOp = "extract_toc"
    /\ \E i \in 1..Len(toc_entries) :
          \E l \in LinesOf(toc_entries[i]) : int(l.num) > Len(pdf)

\* the id without its last component: the characters before its last dot
WithoutLastComponent(section_id) ==
    SubSeq(section_id, 1, Max({i \in 1..Len(section_id) : section_id[i] = "."}) - 1)

\* C10: for every heading extract_toc_entry produces, level is the number of
\* dot-separated components of section_id, and parent_id is section_id
\* without its last component, absent exactly when level is 1.
C10_LevelAndParent ==
    (lastOp = "extract_toc_entry" /\ entry # None) =>
        LET e == entry[1]
        IN  /\ e.level = NumComponents(e.section_id)
            /\ (e.parent_id = None) <=> (e.level = 1)
            /\ e.level > 1 => e.parent_id = Some(WithoutLastComponent(e.section_id))
            /\ e.section_id = <<"4">> => e.level = 1 /\ e.parent_id = None
            /\ e.section_id = <<"3", ".", "1", ".", "2">> =>
                  e.level = 3 /\ e.parent_id = Some(<<"3", ".", "1">>)

\* C10 witness: the line 3.1.2 has been parsed into a heading of level 3
\* with parent 3.1.
C10_Witness ==
    /\ lastOp = "extract_toc_entry"
    /\ entry # None
    /\ entry[1].section_id = <<"3", ".", "1", ".", "2">>
    /\ entry[1].level = 3
    /\ entry[1].parent_id = Some(<<"3", ".", "1">>)

-----------------------------------------------------------------------------
(* C16 *)

\* heading i of toc_entries has a section entry
HasSectionEntry(i) ==
    \E n \in 1..Len(section_entries) :
        /\ section_entries[n].section_id = toc_entries[i].section_id
        /\ section_entries[n].page = toc_entries[i].page

\* no page read for heading i yields text
NoTextInRange(i) ==
    \A n \in 1..Len(ranges[i].pages) : pdf[ranges[i].pages[n]] = <<>>

\* C16 as claimed: when no page of a heading's range yields text, the
\* extraction result is the empty string and the heading has a content
\* record with content "".
C16_NoTextGivesEmptyString ==
    SectionsRun =>
        \A i \in 1..Len(toc_entries) :
            NoTextInRange(i) =>
                /\ ranges[i].content = Some(<<>>)
                /\ HasSectionEntry(i)

\* C16 as amended: when no page of a heading's range yields text, the
\* extraction result is None (absent, not an error), the heading gets no
\* content record, and the run continues: every later heading whose range
\* yields text has its content record.
C16_NoTextGivesNone ==
    SectionsRun =>
        \A i \in 1..Len(toc_entries) :
            NoTextInRange(i) =>
                /\ ranges[i].content = None
                /\ ~HasSectionEntry(i)
                /\ \A j \in (i + 1)..Len(toc_entries) :
                      ~NoTextInRange(j) =>
                          /\ ranges[j].content # None
                          /\ HasSectionEntry(j)

\* C16 witness: a heading whose range yields no text was skipped and a later
\* heading of the same run has its content record.
C16_Witness ==
    /\ SectionsRun
    /\ \E i \in 1..Len(toc_entries), j \in 1..Len(toc_entries) :
          /\ i < j
          /\ NoTextInRange(i)
          /\ ranges[i].content = None
          /\ ranges[j].content # None
          /\ HasSectionEntry(j)


-----------------------------------------------------------------------------
(* The reconciliation of headings and content records *)

HeadingIds == { toc_entries[i].section_id : i \in 1..Len(toc_entries) }

ContentIds == { section_entries[i].section_id : i \in 1..Len(section_entries) }

Calls(op) == { i \in 1..Len(out) : out[i].op = op }

Analyses == Calls("analyze_toc_vs_parsed")

Elements(list) == { list[i] : i \in 1..Len(list) }

NoRepeats(list) == \A i \in 1..Len(list), j \in 1..Len(list) : list[i] = list[j] => i = j

\* C11: the coverage an analysis reports is the number of distinct heading ids
\* that are also content ids, divided by the number of distinct heading ids,
\* times 100; it is 0 when there is no heading.
C11_CoverageOverDistinctIds ==
    \A c \in Analyses :
        LET coverage == out[c].value.coverage_percentage
        IN  /\ coverage.den > 0
            /\ IF HeadingIds = {} THEN coverage.num = 0
               ELSE coverage.num * Cardinality(HeadingIds)
                        = 100 * Cardinality(HeadingIds \cap ContentIds) * coverage.den

\* an analysis of headings that repeat an id, some of them with content
C11_Witness ==
    /\ Analyses # {}
    /\ Cardinality(HeadingIds) < Len(toc_entries)
    /\ HeadingIds \cap ContentIds # {}

\* C12: an analysis reports as missing exactly the heading ids with no content
\* record and as extra exactly the content ids that no heading has, each once.
C12_MissingAndExtra ==
    \A c \in Analyses :
        LET missing == out[c].value.missing_from_parsed
            extra   == out[c].value.extra_in_parsed
        IN  /\ Elements(missing) = { id \in HeadingIds : id \notin ContentIds }
            /\ Elements(extra) = { id \in ContentIds : id \notin HeadingIds }
            /\ NoRepeats(missing)
            /\ NoRepeats(extra)

\* an analysis that returned for inputs with a missing and an extra id
C12_Witness ==
    \E c \in Analyses :
        /\ out[c].value.missing_from_parsed # <<>>
        /\ out[c].value.extra_in_parsed # <<>>

\* the content record of an id: the first one in section_entries that has it
ContentEntry(id) ==
    section_entries[CHOOSE n \in 1..Len(section_entries) :
        /\ section_entries[n].section_id = id
        /\ \A m \in 1..(n - 1) : section_entries[m].section_id # id]

Disagreeing ==
    { i \in 1..Len(toc_entries) :
        /\ toc_entries[i].section_id \in HeadingIds \cap ContentIds
        /\ toc_entries[i].page # ContentEntry(toc_entries[i].section_id).page }

\* C13: the order issues of an analysis are, in the order of the headings, one
\* for each heading whose id is in both sets and whose page differs from the
\* page of the content record of that id; each carries the two pages and the
\* absolute value of their difference.
C13_OrderIssues ==
    \A c \in Analyses :
        LET issues == out[c].value.order_issues
        IN  /\ Len(issues) = Cardinality(Disagreeing)
            /\ \A k \in 1..Len(issues) :
                   \E i \in Disagreeing :
                       /\ Cardinality({j \in Disagreeing : j <= i}) = k
                       /\ issues[k].section_id = toc_entries[i].section_id
                       /\ issues[k].toc_page = toc_entries[i].page
                       /\ issues[k].parsed_page
                              = ContentEntry(toc_entries[i].section_id).page
                       /\ issues[k].difference >= 0
                       /\ issues[k].difference
                              \in { issues[k].toc_page - issues[k].parsed_page,
                                    issues[k].parsed_page - issues[k].toc_page }

\* an analysis with a heading on an earlier page than its content record and
\* a heading whose page agrees with its content record
C13_Witness ==
    \E c \in Analyses :
        /\ \E k \in 1..Len(out[c].value.order_issues) :
               out[c].value.order_issues[k].toc_page
                   < out[c].value.order_issues[k].parsed_page
        /\ \E i \in 1..Len(toc_entries) :
               /\ toc_entries[i].section_id \in ContentIds
               /\ i \notin Disagreeing

IdsOfLevel(l) ==
    { toc_entries[i].section_id : i \in { j \in 1..Len(toc_entries) : toc_entries[j].level = l } }

TimesListed(id) == Cardinality({ i \in 1..Len(toc_entries) : toc_entries[i].section_id = id })

\* a and b are neighbours in the numerically sorted list of their level
Adjacent(a, b) ==
    /\ NumComponents(a) = NumComponents(b)
    /\ \/ a = b /\ TimesListed(a) >= 2
       \/ /\ NumericBefore(int_parts(a), int_parts(b))
          /\ ~\E c \in IdsOfLevel(NumComponents(a)) :
                 /\ NumericBefore(int_parts(a), int_parts(c))
                 /\ NumericBefore(int_parts(c), int_parts(b))

LastComponent(id) == int_parts(id)[NumComponents(id)]

ParentPrefix(id) == IF NumComponents(id) = 1 THEN <<>> ELSE WithoutLastComponent(id)

ExpectedGaps ==
    { <<a, b>> \in HeadingIds \X HeadingIds :
        /\ Adjacent(a, b)
        /\ ParentPrefix(a) = ParentPrefix(b)
        /\ LastComponent(b) # LastComponent(a) + 1 }

FlaggedGaps(gaps) == { <<gaps[k].before_section, gaps[k].after_section>> : k \in 1..Len(gaps) }

\* C14: the pairs find_section_gaps flags are exactly the pairs of headings
\* that are neighbours in the numerically sorted list of one level, have the
\* same parent prefix and whose last components do not follow one another;
\* 2.1, 2.2, 2.4 give the one gap 2.2 to 2.4, 2.1, 2.2, 2.3 give none, and
\* 2.9 to 3.1 is never flagged.
C14_GapsAreSiblingJumps ==
    \A c \in Calls("find_section_gaps") :
        LET gaps == out[c].value
        IN  /\ FlaggedGaps(gaps) = ExpectedGaps
            /\ \A k \in 1..Len(gaps), m \in 1..Len(gaps) :
                   (gaps[k] = gaps[m] /\ k # m)
                       => gaps[k].before_section = gaps[k].after_section
            /\ <<(<<"2", ".", "9">>), (<<"3", ".", "1">>)>> \notin FlaggedGaps(gaps)
            /\ HeadingIds = {<<"2", ".", "1">>, <<"2", ".", "2">>, <<"2", ".", "4">>}
                   /\ Len(toc_entries) = 3
                   => /\ Len(gaps) = 1
                      /\ gaps[1].before_section = <<"2", ".", "2">>
                      /\ gaps[1].after_section = <<"2", ".", "4">>
            /\ HeadingIds = {<<"2", ".", "1">>, <<"2", ".", "2">>, <<"2", ".", "3">>}
                   /\ Len(toc_entries) = 3
                   => gaps = <<>>

\* C17: a step of any reconciliation function leaves toc_entries and
\* section_entries as they were: same elements, same order, same fields.
C17_InputsUnchanged ==
    [][toc_entries' = toc_entries /\ section_entries' = section_entries]_vars

\* every function has returned for headings that are not in sorted order
C17_Witness ==
    /\ Len(out) > 0
    /\ Len(toc_entries) >= 2
    /\ toc_entries # sort_entries(toc_entries)
    /\ section_entries # <<>>

SameQuotient(p, q) == p.num * q.den = q.num * p.den

Reported == lastOp = "generate_validation_report"

ReportRows == out[1].value

\* the rows of the report that belong to heading i
RowsOfHeading(i) ==
    { k \in 1..Len(ReportRows) :
        /\ ReportRows[k].in_toc = "YES"
        /\ ReportRows[k].section_id = toc_entries[i].section_id
        /\ ReportRows[k].toc_page = Some(toc_entries[i].page) }

HeadingsLike(i) ==
    { j \in 1..Len(toc_entries) :
        /\ toc_entries[j].section_id = toc_entries[i].section_id
        /\ toc_entries[j].page = toc_entries[i].page }

ExtraContents == { n \in 1..Len(section_entries) : section_entries[n].section_id \notin HeadingIds }

\* C15: the report of a run has one row per heading, with status OK when a
\* content record has the heading's id and MISSING otherwise, and one EXTRA
\* row per content record whose id no heading has; there is no other row, and
\* a heading whose extraction produced no text has status MISSING.
C15_ReportRows ==
    Reported =>
        /\ Len(ReportRows) = Len(toc_entries) + Cardinality(ExtraContents)
        /\ Cardinality({k \in 1..Len(ReportRows) : ReportRows[k].status = "EXTRA"})
               = Cardinality(ExtraContents)
        /\ \A k \in 1..Len(ReportRows) : ReportRows[k].status \in {"OK", "MISSING", "EXTRA"}
        /\ \A i \in 1..Len(toc_entries) :
               /\ Cardinality(RowsOfHeading(i)) = Cardinality(HeadingsLike(i))
               /\ \A k \in RowsOfHeading(i) :
                      ReportRows[k].status
                          = IF toc_entries[i].section_id \in ContentIds
                            THEN "OK" ELSE "MISSING"
               /\ ranges[i].content = None
                      => \A k \in RowsOfHeading(i) : ReportRows[k].status = "MISSING"


-----------------------------------------------------------------------------
(* Document profiles and tags *)

RegisteredKeys == {"usb_pd", "generic", "ieee"}

\* the profile the key doc_type stands for
ActiveProfile ==
    CASE doc_type = "usb_pd" -> USBPDConfig
      [] doc_type = "generic" -> GenericTechSpecConfig
      [] doc_type = "ieee" -> IEEEStandardConfig
      [] OTHER -> GenericTechSpecConfig

\* C19: get_document_config never raises; for a registered key it returns the
\* profile of that key, for any other key the generic profile.
C19_ProfileOrGenericFallback ==
    \A c \in Calls("get_document_config") :
        /\ ~out[c].value.raised
        /\ out[c].value.value = ActiveProfile
        /\ doc_type \notin RegisteredKeys
               => out[c].value.value.doc_type = "generic_tech_spec"

\* a profile was requested by a key that is not registered
C19_Witness ==
    /\ doc_type \notin RegisteredKeys
    /\ \E c \in Calls("get_document_config") :
           out[c].value = returns(GenericTechSpecConfig)

\* the tags of the active profile some keyword of which occurs in the title,
\* whatever the case of the letters
ProfileTags ==
    { m[2] : m \in { p \in ActiveProfile.tag_mapping : in_str(p[1], lower(tag_title)) } }

\* C20: the tags generate_tags returns for a title are exactly the tags of the
\* active profile's mapping that have a keyword occurring in the title as a
\* case-insensitive substring (none if nothing matches), and every call for
\* the title returns the same tags.
C20_TagsFollowActiveProfile ==
    \A c \in Calls("generate_tags") :
        /\ Elements(out[c].value) = ProfileTags
        /\ \A d \in Calls("generate_tags") : out[d].value = out[c].value


-----------------------------------------------------------------------------
(* Lines that give no heading *)

\* C23: extract_toc_entry returns no heading for a line that matches no
\* pattern and for a line whose page field is not a positive integer, such as
\* a page field of 0.
C23_NoHeadingWithoutPositivePage ==
    lastOp = "extract_toc_entry" =>
        ((line.pat = 0 \/ int(line.num) < 1) => entry = None)


-----------------------------------------------------------------------------
(* The figures of an analysis taken together *)

\* C29: in every analysis the missing ids and the common ids partition the
\* distinct heading ids, the extra ids are no heading ids, the coverage lies
\* between 0 and 100, and it is 100 exactly when there is a heading and no id
\* is missing.
C29_AnalysisFiguresConsistent ==
    \A c \in Analyses :
        LET missing  == Elements(out[c].value.missing_from_parsed)
            extra    == Elements(out[c].value.extra_in_parsed)
            common   == HeadingIds \ missing
            coverage == out[c].value.coverage_percentage
        IN  /\ missing \subseteq HeadingIds
            /\ common = HeadingIds \cap ContentIds
            /\ out[c].value.common_entries = Cardinality(common)
            /\ Len(out[c].value.missing_from_parsed) + out[c].value.common_entries
                   = Cardinality(HeadingIds)
            /\ extra \cap HeadingIds = {}
            /\ coverage.den > 0
            /\ coverage.num >= 0
            /\ coverage.num <= 100 * coverage.den
            /\ (coverage.num = 100 * coverage.den)
                   <=> (HeadingIds # {} /\ missing = {})

\* an analysis of headings with a missing and a common id, and of content
\* records with an extra id
C29_Witness ==
    \E c \in Analyses :
        /\ out[c].value.missing_from_parsed # <<>>
        /\ out[c].value.extra_in_parsed # <<>>
        /\ out[c].value.common_entries > 0


-----------------------------------------------------------------------------
(* The parser's two lists across calls *)

Sorted(list) ==
    \A i \in 1..Len(list), j \in 1..Len(list) :
        i < j => ~NumericBefore(int_parts(list[j].section_id),
                                int_parts(list[i].section_id))

\* the TOC lines on the pages the scan reads
ScannedLines ==
    UNION { { <<p, k>> : k \in { n \in 1..Len(pdf[p]) : pdf[p][n].pat # 0 } } :
            p \in { q \in 1..Len(pdf) : q <= TOC_SCAN_PAGES } }

\* C24: when the ranges are resolved the TOC scan is over: the list they are
\* resolved on is the complete list of the headings of the scanned pages, in
\* sorted order, and every range starts and ends on pages of that list.
C24_RangesReadCompleteSortedList ==
    SectionsRun =>
        /\ Sorted(toc_entries)
        /\ Len(toc_entries) = Cardinality(ScannedLines)
        /\ Len(ranges) = Len(toc_entries)
        /\ \A i \in 1..Len(ranges) :
               /\ ranges[i].start_page = toc_entries[i].page
               /\ ranges[i].closed_by \in 0..Len(toc_entries)
               /\ ranges[i].closed_by # 0
                      => ranges[i].end_page = toc_entries[ranges[i].closed_by].page

\* the scan met the headings out of order and a range is closed by a heading
C24_Witness ==
    /\ SectionsRun
    /\ ScannedIds # TocIds
    /\ \E i \in 1..Len(ranges) : ranges[i].closed_by # 0

HeadingFields == {"section_id", "title", "page", "level", "parent_id"}

\* C25 as stated: extract_sections leaves toc_entries as it was before the call.
C25_TocSameAsBeforeCall ==
    [][lastOp' = "extract_sections" => toc_entries' = toc_entries]_vars

\* C25: extract_sections leaves a non-empty toc_entries as it was (an empty
\* one it fills by a TOC scan); no TOC entry has a content field afterwards,
\* and every section entry is a record of its own that has the heading fields
\* of a TOC entry and a non-empty content.
C25_HeadingsKeptOnceScanned ==
    [][lastOp' = "extract_sections" =>
          /\ toc_entries # <<>> => toc_entries' = toc_entries
          /\ toc_entries = <<>> => Len(toc_entries') = Cardinality(ScannedLines)
          /\ \A i \in 1..Len(toc_entries') :
                 DOMAIN toc_entries'[i] = HeadingFields
          /\ \A n \in 1..Len(section_entries') :
                 /\ DOMAIN section_entries'[n] = HeadingFields \cup {"content"}
                 /\ section_entries'[n].content # <<>>
                 /\ \E i \in 1..Len(toc_entries') :
                        \A f \in HeadingFields :
                            section_entries'[n][f] = toc_entries'[i][f]]_vars

\* extract_sections has run on headings, with content for some and none for others
C25_Witness ==
    /\ SectionsRun
    /\ section_entries # <<>>
    /\ Len(section_entries) < Len(toc_entries)

\* C26: section_entries is a subsequence of toc_entries, each section entry
\* with the id and page of its TOC entry and a non-empty content; an analysis
\* of the two lists reports no extra id and no order issue.
C26_SectionsFollowToc ==
    /\ \E at \in [1..Len(section_entries) -> 1..Len(toc_entries)] :
           /\ \A n \in 1..Len(section_entries), m \in 1..Len(section_entries) :
                  n < m => at[n] < at[m]
           /\ \A n \in 1..Len(section_entries) :
                  /\ section_entries[n].section_id = toc_entries[at[n]].section_id
                  /\ section_entries[n].page = toc_entries[at[n]].page
                  /\ section_entries[n].content # <<>>
    /\ lastOp = "analyze_toc_vs_parsed" =>
           /\ out[Len(out)].value.extra_in_parsed = <<>>
           /\ out[Len(out)].value.order_issues = <<>>

\* C27: once a call has returned, a further call of extract_toc or
\* extract_sections leaves toc_entries as it is, and once extract_sections has
\* returned, a further call leaves section_entries as it is.
C27_NoAccumulation ==
    [][/\ lastOp # "__init__" => toc_entries' = toc_entries
       /\ (lastOp = "extract_sections" \/ ranges # <<>>)
              => section_entries' = section_entries]_vars

\* extract_toc has run again after extract_sections, on a document with headings
C27_Witness ==
    /\ lastOp = "extract_toc"
    /\ ranges # <<>>
    /\ section_entries # <<>>
    /\ Len(toc_entries) >= 2


-----------------------------------------------------------------------------
(* The pages of the TOC in the metadata *)

\* C28: after a call of extract_toc, toc_pages has no page twice, it holds
\* exactly the pages on which the headings of toc_entries were found, and
\* none of them lies beyond the scan limit or the last page.
C28_TocPagesOfCurrentScan ==
    lastOp = "extract_toc" =>
        /\ NoRepeats(metadata.toc_pages)
        /\ Elements(metadata.toc_pages)
               = { toc_entries[i].page : i \in 1..Len(toc_entries) }
        /\ \A p \in Elements(metadata.toc_pages) :
               p <= TOC_SCAN_PAGES /\ p <= metadata.total_pages

-----------------------------------------------------------------------------
(* The command line run *)

\* the stages of parse_complete, in the order in which it starts them
ParseStages ==
    <<"extract_toc", "count_tables_and_figures", "extract_sections", "save_outputs">>

\* the steps of main after parse_complete
MainSteps ==
    <<"generate_validation_report", "save_validation_report",
      "print_validation_summary">>

Ended(op, outcome) ==
    \E i \in 1..Len(out) : out[i] = [op |-> op, value |-> outcome]

Started(op) == \E i \in 1..Len(out) : out[i].op = op

RecordFilesWritten == files \cap Elements(record_files)

ValidationFailed ==
    \E i \in 1..Len(out) :
        out[i].op = "generate_validation_report" /\ out[i].value # "ok"

\* C21: in a run of the command line no record file (TOC, sections, metadata)
\* exists before the validation of the headings against the contents has
\* completed successfully, and no output file exists when the validation failed
C21_RecordsOnlyAfterValidation ==
    /\ RecordFilesWritten # {} => Ended("generate_validation_report", "ok")
    /\ ValidationFailed => files = {}

NotPdfName(suffix) ==
    suffix \notin { <<".", "p", "d", "f">>, <<".", "P", "D", "F">> }

AllSucceeded ==
    /\ \A k \in 1..Len(ParseStages) : Ended(ParseStages[k], "ok")
    /\ Ended("parse_complete", "True")
    /\ \A k \in 1..Len(MainSteps) : Ended(MainSteps[k], "ok")
    /\ "validation_report.xlsx" \in files

SomethingRaised ==
    \E i \in 1..Len(out) : out[i].op # "parse_complete" /\ out[i].value # "ok"

\* C22: the run exits with 0 only when every stage and the validation report
\* succeeded; it exits non-zero when the input file does not exist, when its
\* name is not a .pdf name, when parse_complete returned False and when a
\* stage did not end normally; for a missing or non-pdf input no stage starts
C22_ExitCodes ==
    /\ pc # "exited" => exit_code = None
    /\ pc = "exited" =>
        /\ exit_code \in {Some(0), Some(1)}
        /\ exit_code = Some(0) => AllSucceeded
        /\ ~args.exists \/ NotPdfName(args.suffix) =>
               exit_code = Some(1) /\ out = <<>> /\ files = {} /\ toc_entries = <<>>
        /\ Ended("parse_complete", "False") => exit_code = Some(1)
        /\ SomethingRaised => exit_code = Some(1)

C22_Witness ==
    /\ pc = "exited"
    /\ exit_code = Some(0)
    /\ args.suffix = <<".", "P", "D", "F">>
    /\ toc_entries # <<>>

\* the log up to parse_complete's return is the stages 1..n in their order,
\* all but possibly the last ended normally
StagesInOrder(n) ==
    \A k \in 1..n : k <= Len(out) /\ out[k].op = ParseStages[k]

=============================================================================
